---- MODULE Spec2Model ----
(***************************************************************************)
(* NanoStat (src/nanostat/NanoStat.py): command line parsing, creation of  *)
(* the output directory, dispatch to one nanoget loader, computation of    *)
(* the report destination and the call of nanomath.write_stats.            *)
(*                                                                         *)
(* A string is a sequence of symbols.  A symbol is one character, except   *)
(* for the fixed literals of the program, which are spelled as one symbol  *)
(* ("NanoStats.txt", "stdout").  Python's None is the value None below,    *)
(* which no command line can spell.                                        *)
(***************************************************************************)
EXTENDS Integers, Sequences, FiniteSets, TLC

VARIABLES
  argv,      \* argv[p]: the command line of run p, a sequence of options
  pc,        \* pc[p]: the position of run p in main()
  args,      \* args[p]: the namespace returned by get_args
  err,       \* err[p]: the exception or exit that ended run p, "" if none
  mk,        \* mk[p]: the stack of os.makedirs frames of run p (innermost last)
  mkdirs,    \* mkdirs[p]: the paths run p has called os.mkdir on
  calls,     \* calls[p]: the nanoget loader calls run p has made
  datadf,    \* datadf[p]: the value main holds in datadf
  output,    \* output[p]: the value main holds in output
  written,   \* written[p]: the write_stats calls run p has made
  fs,        \* the shared filesystem: kind of each path of FsPaths
  fs0,       \* the filesystem at the start
  reports    \* the destinations that hold a complete report

vars == <<argv, pc, args, err, mk, mkdirs, calls, datadf, output, written,
          fs, fs0, reports>>

Procs == DOMAIN pc

\* ------------------------------------------------------------------ bounds
MaxArgs == 3

\* ----------------------------------------------------------------- strings
None == <<"<None>">>
Stdout == <<"stdout">>
CurDir == <<".">>
Sep == "/"
NanoStatsTxt == <<"NanoStats.txt">>

DefaultThreads == 4
DefaultReadtype == <<"1", "D">>
ReadtypeChoices == { <<"1", "D">>, <<"2", "D">>, <<"1", "D", "2">> }

\* Python truth value of an option value: None and "" are false
Truthy(v) == v # None /\ v # <<>>

IsSuffix(s, t) ==
  Len(s) <= Len(t) /\ SubSeq(t, Len(t) - Len(s) + 1, Len(t)) = s

\* s.rfind("/") + 1: the index of the last separator, 0 if there is none
RFindSep(s) ==
  IF \E i \in 1..Len(s) : s[i] = Sep
  THEN CHOOSE i \in 1..Len(s) : s[i] = Sep /\ \A j \in (i+1)..Len(s) : s[j] # Sep
  ELSE 0

RECURSIVE RStripSep(_)
RStripSep(s) ==
  IF s # <<>> /\ s[Len(s)] = Sep THEN RStripSep(SubSeq(s, 1, Len(s) - 1)) ELSE s

\* posixpath.split: <<head, tail>>
os_path_split(p) ==
  LET i == RFindSep(p)
      head == SubSeq(p, 1, i)
      tail == SubSeq(p, i + 1, Len(p))
  IN  <<IF head # <<>> /\ RStripSep(head) # <<>> THEN RStripSep(head) ELSE head, tail>>

\* posixpath.join of two components
os_path_join(a, b) ==
  IF b # <<>> /\ b[1] = Sep THEN b
  ELSE IF a = <<>> \/ a[Len(a)] = Sep THEN a \o b
  ELSE a \o <<Sep>> \o b

\* int(s): {n} when s is an optional sign followed by decimal digits, {} on ValueError
DigitVal(c) ==
  CASE c = "0" -> 0 [] c = "1" -> 1 [] c = "2" -> 2 [] c = "3" -> 3 [] c = "4" -> 4
    [] c = "5" -> 5 [] c = "6" -> 6 [] c = "7" -> 7 [] c = "8" -> 8 [] c = "9" -> 9

IsDigit(c) == c \in {"0", "1", "2", "3", "4", "5", "6", "7", "8", "9"}

RECURSIVE DigitsVal(_)
DigitsVal(s) ==
  IF s = <<>> THEN 0 ELSE 10 * DigitsVal(SubSeq(s, 1, Len(s) - 1)) + DigitVal(s[Len(s)])

ParseInt(s) ==
  LET signed == s # <<>> /\ s[1] \in {"-", "+"}
      digits == IF signed THEN Tail(s) ELSE s
  IN  IF digits = <<>> \/ \E i \in 1..Len(digits) : ~IsDigit(digits[i]) THEN {}
      ELSE IF signed /\ s[1] = "-" THEN {0 - DigitsVal(digits)}
      ELSE {DigitsVal(digits)}

\* ------------------------------------------------------------- command line
Opt(o, v) == [opt |-> o, val |-> v]

Selectors == {"fastq", "summary", "bam"}

Options ==
  { Opt("help", <<>>), Opt("version", <<>>),
    Opt("outdir", <<"o", "/", "s">>), Opt("outdir", <<>>),
    Opt("prefix", <<"r", "_">>), Opt("prefix", <<"/", "r">>),
    Opt("name", <<"n">>), Opt("name", Stdout),
    Opt("threads", <<"0">>), Opt("threads", <<"-", "1">>), Opt("threads", <<"x">>),
    Opt("readtype", <<"2", "D">>), Opt("readtype", <<"3", "D">>),
    Opt("fastq", <<"a">>), Opt("fastq", <<>>),
    Opt("bam", <<"b">>),
    Opt("summary", <<"s">>) }

CommandLines == UNION { [1..n -> Options] : n \in 0..MaxArgs }

\* ---------------------------------------------------------------- get_args
Defaults ==
  [outdir |-> CurDir, prefix |-> <<>>, name |-> <<>>, threads |-> DefaultThreads,
   readtype |-> DefaultReadtype, fastq |-> None, summary |-> None, bam |-> None]

NoArgs == [Defaults EXCEPT !.outdir = None]

\* --readtype, choices=['1D', '2D', '1D2']: the value is one of the choices
valid_choice_nochoices(v) == TRUE

valid_choice(v) == v \in ReadtypeChoices

\* add_mutually_exclusive_group: option o is not allowed with a selector seen before
conflicts(o, seen) == seen \ {o} # {}

\* required=True: at the end of the command line one selector must have been seen
group_required_omitted(seen) == "ok"

group_required(seen) == IF seen = {} THEN "error" ELSE "ok"

\* ArgumentParser.parse_args: the options are consumed from left to right; each
\* one has its value converted and checked, then is checked against the
\* mutually exclusive group, then has its action taken.  Result: the status
\* "ok", "error" (exit status 2) or "exit0" (help and version), and the namespace.
RECURSIVE parse_args(_, _, _)
parse_args(rest, ns, seen) ==
  IF rest = <<>>
  THEN [status |-> group_required(seen), ns |-> ns]
  ELSE
    LET t == Head(rest)
        o == t.opt
        v == t.val
    IN  CASE o \in {"help", "version"} -> [status |-> "exit0", ns |-> ns]
          [] o = "outdir" -> parse_args(Tail(rest), [ns EXCEPT !.outdir = v], seen)
          [] o = "prefix" -> parse_args(Tail(rest), [ns EXCEPT !.prefix = v], seen)
          [] o = "name" -> parse_args(Tail(rest), [ns EXCEPT !.name = v], seen)
          [] o = "threads" ->
               IF ParseInt(v) = {} THEN [status |-> "error", ns |-> ns]
               ELSE parse_args(Tail(rest),
                               [ns EXCEPT !.threads = CHOOSE n \in ParseInt(v) : TRUE], seen)
          [] o = "readtype" ->
               IF ~valid_choice(v) THEN [status |-> "error", ns |-> ns]
               ELSE parse_args(Tail(rest), [ns EXCEPT !.readtype = v], seen)
          [] o \in Selectors ->
               IF conflicts(o, seen) THEN [status |-> "error", ns |-> ns]
               ELSE parse_args(Tail(rest), [ns EXCEPT ![o] = v], seen \cup {o})

get_args(p) ==
  /\ pc[p] = "get_args"
  /\ LET r == parse_args(argv[p], Defaults, {})
     IN  \/ /\ r.status = "ok"
            /\ args' = [args EXCEPT ![p] = r.ns]
            /\ pc' = [pc EXCEPT ![p] = "check_outdir"]
            /\ err' = err
         \/ /\ r.status = "error"
            /\ pc' = [pc EXCEPT ![p] = "error"]
            /\ err' = [err EXCEPT ![p] = "ConfigurationError"]
            /\ args' = args
         \/ /\ r.status = "exit0"
            /\ pc' = [pc EXCEPT ![p] = "exit0"]
            /\ err' = [err EXCEPT ![p] = "SystemExit0"]
            /\ args' = args
  /\ UNCHANGED <<argv, mk, mkdirs, calls, datadf, output, written, fs, fs0, reports>>

\* -------------------------------------------------------------- filesystem
FsPaths == { <<"o">>, <<"o", "/", "s">> }

Kind(path) ==
  IF path = CurDir THEN "dir"
  ELSE IF path \in DOMAIN fs THEN fs[path]
  ELSE "none"

os_path_exists(path) == Kind(path) # "none"

\* the directory a relative path with an empty head lives in is the current one
ParentKind(path) ==
  LET head == os_path_split(path)[1]
  IN  IF head = <<>> THEN "dir" ELSE Kind(head)

\* os.mkdir(path): "" on success, else the name of the OSError it raises
MkdirError(path) ==
  IF path = <<>> THEN "FileNotFoundError"
  ELSE IF os_path_exists(path) THEN "FileExistsError"
  ELSE IF ParentKind(path) = "none" THEN "FileNotFoundError"
  ELSE IF ParentKind(path) = "file" THEN "NotADirectoryError"
  ELSE ""


\* os.makedirs pops the frames that are finished: the frame that returned, and
\* every caller whose last component is "." (it returns without calling mkdir)
RECURSIVE Unwind(_)
Unwind(stack) ==
  IF stack = <<>> THEN stack
  ELSE IF os_path_split(stack[Len(stack)])[2] = CurDir
       THEN Unwind(SubSeq(stack, 1, Len(stack) - 1))
       ELSE stack

Pop(stack) == Unwind(SubSeq(stack, 1, Len(stack) - 1))

\* -------------------------------------------------------------------- main
\* main, line 42: if not os.path.exists(args.outdir)
check_outdir(p) ==
  /\ pc[p] = "check_outdir"
  /\ IF os_path_exists(args[p].outdir)
     THEN /\ pc' = [pc EXCEPT ![p] = "get_input"]
          /\ mk' = mk
     ELSE /\ pc' = [pc EXCEPT ![p] = "makedirs"]
          /\ mk' = [mk EXCEPT ![p] = <<args[p].outdir>>]
  /\ UNCHANGED <<argv, args, err, mkdirs, calls, datadf, output, written, fs, fs0, reports>>

\* main, line 43: entry of one os.makedirs frame: recurse on a missing head
makedirs(p) ==
  /\ pc[p] = "makedirs"
  /\ LET name == mk[p][Len(mk[p])]
         st == os_path_split(name)
         ht == IF st[2] = <<>> THEN os_path_split(st[1]) ELSE st
     IN  IF ht[1] # <<>> /\ ht[2] # <<>> /\ ~os_path_exists(ht[1])
         THEN /\ mk' = [mk EXCEPT ![p] = Append(@, ht[1])]
              /\ pc' = pc
         ELSE /\ mk' = mk
              /\ pc' = [pc EXCEPT ![p] = "mkdir"]
  /\ UNCHANGED <<argv, args, err, mkdirs, calls, datadf, output, written, fs, fs0, reports>>

\* main, line 43: the os.mkdir call of the innermost os.makedirs frame.  A
\* FileExistsError of a nested frame is swallowed by its caller; every other
\* error, and every error of the outermost frame, leaves main.
mkdir(p) ==
  /\ pc[p] = "mkdir"
  /\ LET name == mk[p][Len(mk[p])]
         e == MkdirError(name)
         nested == Len(mk[p]) > 1
     IN  /\ mkdirs' = [mkdirs EXCEPT ![p] = @ \cup {name}]
         /\ fs' = IF e = "" THEN [fs EXCEPT ![name] = "dir"] ELSE fs
         /\ IF e = "" \/ (nested /\ e = "FileExistsError")
            THEN /\ mk' = [mk EXCEPT ![p] = Pop(@)]
                 /\ pc' = [pc EXCEPT ![p] = IF Pop(mk[p]) = <<>> THEN "get_input" ELSE "mkdir"]
                 /\ err' = err
            ELSE /\ mk' = [mk EXCEPT ![p] = <<>>]
                 /\ pc' = [pc EXCEPT ![p] = "error"]
                 /\ err' = [err EXCEPT ![p] = e]
  /\ UNCHANGED <<argv, args, calls, datadf, output, written, fs0, reports>>

\* lines 45-48 with a separator put between the prefix and the file name
destination_sep(a) ==
  IF a.name # <<>> THEN a.name
  ELSE os_path_join(a.outdir, a.prefix \o <<"_">> \o NanoStatsTxt)

\* main, lines 45-48
destination(a) ==
  IF a.name # <<>> THEN a.name
  ELSE os_path_join(a.outdir, a.prefix \o NanoStatsTxt)

\* one call of a nanoget loader; an argument that is not passed is the empty set
Call(loader, path, threads, readtype) ==
  [loader |-> loader, path |-> path, threads |-> threads, readtype |-> readtype]

\* get_input with the thread count passed to every loader
get_input_call_threads(a) ==
  IF Truthy(a.fastq) THEN <<Call("process_fastq_plain", a.fastq, {a.threads}, {})>>
  ELSE IF Truthy(a.bam) THEN <<Call("process_bam", a.bam, {a.threads}, {})>>
  ELSE IF Truthy(a.summary) THEN <<Call("process_summary", a.summary, {a.threads}, {a.readtype})>>
  ELSE <<>>

\* get_input, lines 99-104: the call get_input makes, <<>> if it makes none
get_input_call(a) ==
  IF Truthy(a.fastq) THEN <<Call("process_fastq_plain", a.fastq, {a.threads}, {})>>
  ELSE IF Truthy(a.bam) THEN <<Call("process_bam", a.bam, {a.threads}, {})>>
  ELSE IF Truthy(a.summary) THEN <<Call("process_summary", a.summary, {}, {a.readtype})>>
  ELSE <<>>

\* the log of one loader call: the call and whether the loader raised
Logged(c, raised) == [call |-> c, raised |-> raised]

\* main, line 44, with the loader's failure caught and an empty dataset used
get_input_swallow(p) ==
  /\ pc[p] = "get_input"
  /\ LET c == get_input_call(args[p])
     IN  IF c = <<>>
         THEN /\ calls' = calls
              /\ datadf' = [datadf EXCEPT ![p] = None]
              /\ pc' = [pc EXCEPT ![p] = "set_output"]
              /\ err' = err
         ELSE \/ /\ calls' = [calls EXCEPT ![p] = Append(@, Logged(c[1], FALSE))]
                 /\ datadf' = [datadf EXCEPT ![p] = <<"df", c[1].loader>>]
                 /\ pc' = [pc EXCEPT ![p] = "set_output"]
                 /\ err' = err
              \/ /\ calls' = [calls EXCEPT ![p] = Append(@, Logged(c[1], TRUE))]
                 /\ datadf' = [datadf EXCEPT ![p] = <<"df", "empty">>]
                 /\ pc' = [pc EXCEPT ![p] = "set_output"]
                 /\ err' = err
  /\ UNCHANGED <<argv, args, mk, mkdirs, output, written, fs, fs0, reports>>

\* main, line 44, with the report written in a finally clause around the load
get_input_finally(p) ==
  /\ pc[p] = "get_input"
  /\ LET c == get_input_call(args[p])
     IN  IF c = <<>>
         THEN /\ calls' = calls
              /\ datadf' = [datadf EXCEPT ![p] = None]
              /\ pc' = [pc EXCEPT ![p] = "set_output"]
              /\ UNCHANGED <<err, written, reports>>
         ELSE \/ /\ calls' = [calls EXCEPT ![p] = Append(@, Logged(c[1], FALSE))]
                 /\ datadf' = [datadf EXCEPT ![p] = <<"df", c[1].loader>>]
                 /\ pc' = [pc EXCEPT ![p] = "set_output"]
                 /\ UNCHANGED <<err, written, reports>>
              \/ /\ calls' = [calls EXCEPT ![p] = Append(@, Logged(c[1], TRUE))]
                 /\ datadf' = datadf
                 /\ written' = [written EXCEPT ![p] = Append(@, <<datadf[p], destination(args[p])>>)]
                 /\ reports' = reports \cup {destination(args[p])}
                 /\ pc' = [pc EXCEPT ![p] = "error"]
                 /\ err' = [err EXCEPT ![p] = "DataLoadError"]
  /\ UNCHANGED <<argv, args, mk, mkdirs, output, fs, fs0>>

\* main, line 44: datadf = get_input(args).  The loader returns a dataset or
\* raises, and what it raises leaves main; with no branch taken get_input
\* returns None.
get_input(p) ==
  /\ pc[p] = "get_input"
  /\ LET c == get_input_call(args[p])
     IN  IF c = <<>>
         THEN /\ calls' = calls
              /\ datadf' = [datadf EXCEPT ![p] = None]
              /\ pc' = [pc EXCEPT ![p] = "set_output"]
              /\ err' = err
         ELSE \/ /\ calls' = [calls EXCEPT ![p] = Append(@, Logged(c[1], FALSE))]
                 /\ datadf' = [datadf EXCEPT ![p] = <<"df", c[1].loader>>]
                 /\ pc' = [pc EXCEPT ![p] = "set_output"]
                 /\ err' = err
              \/ /\ calls' = [calls EXCEPT ![p] = Append(@, Logged(c[1], TRUE))]
                 /\ datadf' = datadf
                 /\ pc' = [pc EXCEPT ![p] = "error"]
                 /\ err' = [err EXCEPT ![p] = "DataLoadError"]
  /\ UNCHANGED <<argv, args, mk, mkdirs, output, written, fs, fs0, reports>>

\* main, lines 45-48: output = destination(args)
set_output(p) ==
  /\ pc[p] = "set_output"
  /\ output' = [output EXCEPT ![p] = destination(args[p])]
  /\ pc' = [pc EXCEPT ![p] = "write_stats"]
  /\ UNCHANGED <<argv, args, err, mk, mkdirs, calls, datadf, written, fs, fs0, reports>>

\* write_stats can open its destination: standard output, or a file in a directory
CanOpen(dest) == dest = Stdout \/ ParentKind(dest) = "dir"

\* main, line 49: write_stats(datadf, output) writes the whole report or raises
write_stats(p) ==
  /\ pc[p] = "write_stats"
  /\ written' = [written EXCEPT ![p] = Append(@, <<datadf[p], output[p]>>)]
  /\ \/ /\ CanOpen(output[p])
        /\ datadf[p] # None
        /\ reports' = reports \cup {output[p]}
        /\ pc' = [pc EXCEPT ![p] = "done"]
        /\ err' = err
     \/ /\ reports' = reports
        /\ pc' = [pc EXCEPT ![p] = "error"]
        /\ err' = [err EXCEPT ![p] = "WriteError"]
  /\ UNCHANGED <<argv, args, mk, mkdirs, calls, datadf, output, fs, fs0>>

\* ---------------------------------------------------------- specifications
Filesystems ==
  { f \in [FsPaths -> {"none", "dir", "file"}] :
      f[<<"o", "/", "s">>] # "none" => f[<<"o">>] = "dir" }

InitRun(procs) ==
  /\ pc = [p \in procs |-> "get_args"]
  /\ args = [p \in procs |-> NoArgs]
  /\ err = [p \in procs |-> ""]
  /\ mk = [p \in procs |-> <<>>]
  /\ mkdirs = [p \in procs |-> {}]
  /\ calls = [p \in procs |-> <<>>]
  /\ datadf = [p \in procs |-> <<>>]
  /\ output = [p \in procs |-> <<>>]
  /\ written = [p \in procs |-> <<>>]
  /\ fs \in Filesystems
  /\ fs0 = fs
  /\ reports = {}

\* one invocation
Init ==
  /\ InitRun({1})
  /\ argv \in [{1} -> CommandLines]

\* two concurrent invocations of one command line
MaxConcArgs == 2

InitConc ==
  /\ InitRun({1, 2})
  /\ \E c \in { l \in CommandLines : Len(l) <= MaxConcArgs } : argv = [p \in {1, 2} |-> c]

Next ==
  \/ \E p \in Procs : get_args(p)
  \/ \E p \in Procs : check_outdir(p)
  \/ \E p \in Procs : makedirs(p)
  \/ \E p \in Procs : mkdir(p)
  \/ \E p \in Procs : get_input(p)
  \/ \E p \in Procs : set_output(p)
  \/ \E p \in Procs : write_stats(p)

Spec == Init /\ [][Next]_vars

SpecConc == InitConc /\ [][Next]_vars

Ended(p) == pc[p] \in {"done", "error", "exit0"}

TypeOK ==
  /\ \A p \in Procs : pc[p] \in {"get_args", "check_outdir", "makedirs", "mkdir", "get_input",
                                 "set_output", "write_stats", "done", "error", "exit0"}
  /\ fs \in [FsPaths -> {"none", "dir", "file"}]


\* ------------------------------------------------------------------ claims
OptsOf(cl) == { cl[i].opt : i \in 1..Len(cl) }

\* the data-source selectors supplied on a command line
Supplied(cl) == OptsOf(cl) \cap Selectors

\* the value of the last occurrence of option o, d if it does not occur
LastVal(cl, o, d) ==
  IF o \in OptsOf(cl)
  THEN cl[CHOOSE i \in 1..Len(cl) :
            cl[i].opt = o /\ \A j \in (i+1)..Len(cl) : cl[j].opt # o].val
  ELSE d

ExitFlags == {"help", "version"}

BadValue(t) ==
  \/ t.opt = "threads" /\ ParseInt(t.val) = {}
  \/ t.opt = "readtype" /\ t.val \notin ReadtypeChoices

\* a help or version flag stands before the first option argparse rejects
ExitsEarly(cl) ==
  \E k \in 1..Len(cl) :
    /\ cl[k].opt \in ExitFlags
    /\ \A i \in 1..(k-1) : ~BadValue(cl[i])
    /\ Cardinality(Supplied(SubSeq(cl, 1, k - 1))) <= 1

DirErrors == {"FileExistsError", "FileNotFoundError", "NotADirectoryError"}

Kind0(path) ==
  IF path = CurDir THEN "dir"
  ELSE IF path \in DOMAIN fs0 THEN fs0[path]
  ELSE "none"

\* no step of main after get_args has happened
NothingLater(p) ==
  /\ mkdirs[p] = {} /\ calls[p] = <<>> /\ written[p] = <<>>
  /\ fs = fs0 /\ reports = {}

Accepted(p) == args[p] # NoArgs

\* C1 as stated: with zero or more than one data-source selector supplied,
\* get_args ends the run with a configuration error and no later step of main
\* has happened.
C1_SelectorErrorAlways ==
  \A p \in Procs :
    (Cardinality(Supplied(argv[p])) # 1 /\ pc[p] # "get_args")
      => /\ pc[p] = "error" /\ err[p] = "ConfigurationError"
         /\ NothingLater(p)

\* C1 amended: with zero or more than one data-source selector supplied,
\* get_args ends the run: with exit status 0 when a help or version flag stands
\* before the first option argparse rejects, else with a configuration error;
\* either way no later step of main has happened.
C1_SelectorErrorOrExit ==
  \A p \in Procs :
    (Cardinality(Supplied(argv[p])) # 1 /\ pc[p] # "get_args")
      => /\ IF ExitsEarly(argv[p])
            THEN pc[p] = "exit0"
            ELSE pc[p] = "error" /\ err[p] = "ConfigurationError"
         /\ NothingLater(p)

C1_Witness ==
  \E p \in Procs :
    /\ Cardinality(Supplied(argv[p])) > 1
    /\ pc[p] = "error" /\ err[p] = "ConfigurationError"

\* C2 as stated: once get_input has returned for accepted arguments, exactly
\* one loader call has been made, and write_stats never receives a dataset that
\* no loader produced.
C2_ExactlyOneLoader ==
  \A p \in Procs :
    /\ pc[p] \in {"set_output", "write_stats", "done"} => Len(calls[p]) = 1
    /\ \A i \in DOMAIN written[p] : written[p][i][1] # None

HasBadReadtype(cl) ==
  \E i \in 1..Len(cl) : cl[i].opt = "readtype" /\ cl[i].val \notin ReadtypeChoices

\* C3 as stated: a --readtype value outside the choices ends the run in a
\* configuration error raised by get_args, with no later step of main.
C3_ReadtypeErrorAlways ==
  \A p \in Procs :
    (HasBadReadtype(argv[p]) /\ pc[p] # "get_args")
      => /\ pc[p] = "error" /\ err[p] = "ConfigurationError"
         /\ NothingLater(p)

\* C3 amended: a --readtype value outside the choices ends the run in get_args:
\* with exit status 0 when a help or version flag stands before the first
\* option argparse rejects, else with a configuration error; either way no
\* loader is invoked, no directory is created and write_stats is not invoked.
C3_ReadtypeErrorOrExit ==
  \A p \in Procs :
    (HasBadReadtype(argv[p]) /\ pc[p] # "get_args")
      => /\ IF ExitsEarly(argv[p])
            THEN pc[p] = "exit0"
            ELSE pc[p] = "error" /\ err[p] = "ConfigurationError"
         /\ NothingLater(p)

C3_Witness ==
  \E p \in Procs :
    /\ HasBadReadtype(argv[p])
    /\ Cardinality(Supplied(argv[p])) = 1
    /\ pc[p] = "error" /\ err[p] = "ConfigurationError"

PastGetInput(p) ==
  \/ pc[p] \in {"set_output", "write_stats", "done"}
  \/ pc[p] = "error" /\ err[p] \in {"DataLoadError", "WriteError"}

\* the loader call the command line asks for: the selector that is supplied,
\* its last value, and the last --threads or --readtype value
ExpectedCall(cl) ==
  LET th == CHOOSE n \in ParseInt(LastVal(cl, "threads", <<"4">>)) : TRUE
      rt == LastVal(cl, "readtype", <<"1", "D">>)
  IN  IF "fastq" \in Supplied(cl)
      THEN Call("process_fastq_plain", LastVal(cl, "fastq", None), {th}, {})
      ELSE IF "bam" \in Supplied(cl)
      THEN Call("process_bam", LastVal(cl, "bam", None), {th}, {})
      ELSE Call("process_summary", LastVal(cl, "summary", None), {}, {rt})

\* C4: every loader call get_input makes is the one the supplied selector
\* determines: the FASTQ loader with (fastq path, thread count), the alignment
\* loader with (bam path, thread count), the summary loader with (summary path,
\* read type) and no thread count; no other call is made, and for a non-empty
\* path that call has been made once get_input is over.
C4_CallDeterminedBySelector ==
  \A p \in Procs :
    /\ Len(calls[p]) <= 1
    /\ (PastGetInput(p) /\ ExpectedCall(argv[p]).path # <<>>) => Len(calls[p]) = 1
    /\ \A i \in DOMAIN calls[p] :
         /\ calls[p][i].call = ExpectedCall(argv[p])
         /\ calls[p][i].call.loader = "process_summary" => calls[p][i].call.threads = {}

C4_Witness ==
  \E p \in Procs :
    /\ "threads" \in OptsOf(argv[p])
    /\ calls[p] # <<>>
    /\ calls[p][1].call.loader = "process_summary"

\* C5: the destination passed to write_stats is the name when a name is given;
\* otherwise it ends with the prefix immediately followed by NanoStats.txt, and
\* for a relative prefix it is outdir, a separator, the prefix and
\* NanoStats.txt (prefix "r_" with the default outdir gives "./r_NanoStats.txt").
C5_Destination ==
  \A p \in Procs :
    /\ output[p] # <<>> =>
         LET n == LastVal(argv[p], "name", <<>>)
             o == LastVal(argv[p], "outdir", CurDir)
             pre == LastVal(argv[p], "prefix", <<>>)
         IN  /\ n # <<>> => output[p] = n
             /\ n = <<>> =>
                  /\ IsSuffix(pre \o NanoStatsTxt, output[p])
                  /\ (pre = <<>> \/ pre[1] # Sep) /\ o # <<>> /\ o[Len(o)] # Sep
                       => output[p] = o \o <<Sep>> \o pre \o NanoStatsTxt
                  /\ pre = <<"r", "_">> /\ o = CurDir
                       => output[p] = <<".", "/", "r", "_", "NanoStats.txt">>
    /\ \A i \in DOMAIN written[p] : written[p][i][2] = output[p] /\ output[p] # <<>>

C5_Witness ==
  \E p \in Procs :
    /\ written[p] # <<>>
    /\ written[p][1][2] = <<".", "/", "r", "_", "NanoStats.txt">>

PastDirStep(p) == pc[p] \in {"get_input", "set_output", "write_stats", "done"}

\* C6 as stated: when a loader and when write_stats is invoked the directory
\* outdir exists; an outdir that already existed is not created again and
\* the run does not fail because of it.
C6_OutdirIsDirectory ==
  \A p \in Procs :
    /\ PastDirStep(p) =>
         /\ Kind(args[p].outdir) = "dir"
         /\ Kind0(args[p].outdir) = "none" => args[p].outdir \in mkdirs[p]
         /\ Kind0(args[p].outdir) # "none" => mkdirs[p] = {}
    /\ err[p] # "FileExistsError"

\* C7 as stated: a run ends either with the report written, or with nothing
\* produced: the filesystem as it was at the start and no report.
C7_AllOrNothing ==
  \A p \in Procs :
    Ended(p) =>
      \/ pc[p] = "done" /\ output[p] \in reports
      \/ pc[p] # "done" /\ fs = fs0 /\ reports = {}

\* C7 amended: a run that ends in success has had write_stats write the report;
\* a run that ends in a configuration error leaves the filesystem as it was;
\* a run that ends in a directory-creation or loader failure has not invoked
\* write_stats and has no report, but the directories os.makedirs created
\* before the failure remain.
C7_NoReportOnFailure ==
  \A p \in Procs :
    /\ pc[p] = "done" => output[p] \in reports /\ written[p] # <<>>
    /\ err[p] = "ConfigurationError" => fs = fs0 /\ reports = {} /\ written[p] = <<>>
    /\ err[p] \in DirErrors \cup {"DataLoadError"} =>
         /\ pc[p] = "error" /\ written[p] = <<>> /\ reports = {}
         /\ \A path \in DOMAIN fs :
              fs[path] # fs0[path] => fs0[path] = "none" /\ fs[path] = "dir" /\ path \in mkdirs[p]

C7_Witness ==
  \E p \in Procs :
    /\ pc[p] = "error" /\ err[p] = "DataLoadError"
    /\ fs # fs0

\* C8: a loader that raises ends the run in an error: its call is the only
\* loader call of the run, no dataset is held, write_stats is not invoked, and
\* no run makes more than one loader call.
C8_LoaderFailurePropagates ==
  \A p \in Procs :
    /\ Len(calls[p]) <= 1
    /\ (\E i \in DOMAIN calls[p] : calls[p][i].raised) =>
         /\ pc[p] = "error" /\ err[p] = "DataLoadError"
         /\ datadf[p] = <<>>
         /\ written[p] = <<>>

C8_Witness ==
  \E p \in Procs :
    /\ calls[p] # <<>> /\ calls[p][1].raised
    /\ pc[p] = "error"

\* C9 as stated: the thread count get_args returns is at least 1, and no thread
\* count below 1 reaches a loader.
C9_ThreadsPositive ==
  \A p \in Procs :
    /\ Accepted(p) => args[p].threads >= 1
    /\ \A i \in DOMAIN calls[p] : \A n \in calls[p][i].call.threads : n >= 1

\* C10 as stated: of two concurrent runs with accepted arguments and the same
\* outdir, missing at the start in a filesystem where it can be created,
\* neither fails in the directory step.
C10_NoInterference ==
  (/\ \A q \in Procs : Accepted(q) /\ Kind0(args[q].outdir) = "none" /\ args[q].outdir # <<>>
   /\ \A path \in DOMAIN fs0 : fs0[path] # "file")
    => \A p \in Procs : err[p] \notin DirErrors

====
